---------------------------- MODULE Spec2Model ----------------------------
(***************************************************************************)
(* The session / profile context of src/context/AuthProvider.tsx as a      *)
(* state machine.  The React state cells (session, isLoading, username,    *)
(* website, avatarUrl) are variables; every handler and every continuation *)
(* that runs after an await is one atomic action (JavaScript runs each to  *)
(* completion on the event loop).  The backend, the local key-value store  *)
(* and the user are the environment: their answers are drawn with \E.      *)
(***************************************************************************)
EXTENDS Naturals, Sequences, FiniteSets

\* -------------------------------------------------------------------------
\* Bounds of the model
\* -------------------------------------------------------------------------

\* At most this many getProfile invocations are suspended at their query.
MaxFetches == 2

\* -------------------------------------------------------------------------
\* Values
\* -------------------------------------------------------------------------

\* Option values: Null is JavaScript's null/undefined, Some(x) a present value.
Null == <<>>
Some(x) == <<x>>
Get(o) == o[1]

\* A Session is represented by the id of its user (Session.user.id); the
\* nullable Session | null adds NoSession.
Users == {"u1", "u2"}
NoSession == "null"
Sessions == Users \cup {NoSession}

\* The rows a user's profile query can deliver: {username, website, avatar_url}.
ProfileRow(u) ==
    IF u = "u1"
    THEN [username |-> "alice", website |-> "alice.example", avatar_url |-> "a.png"]
    ELSE [username |-> "bob", website |-> "", avatar_url |-> "b.png"]

\* The status the backend gives a .single() query that matched no row.
NotFoundStatus == 406

ErrorMessages == {"Network request failed"}

\* A value that reaches a catch clause, or the error member of a backend
\* answer: isError is the outcome of `error instanceof Error`.
ThrownValues == [isError : BOOLEAN, message : ErrorMessages]
ErrorObjects == {e \in ThrownValues : e.isError}

\* Alert.alert(title, message?): the message is absent when one argument is given.
NoText == "<undefined>"
AlertOf(title, message) == [title |-> title, message |-> message]

\* Keys of the local store, as sequences of characters.
KeyToken ==
    <<"s","u","p","a","b","a","s","e",".","a","u","t","h",".","t","o","k","e","n">>
KeyUserSession == <<"u","s","e","r","-","s","e","s","s","i","o","n">>
KeyTheme == <<"t","h","e","m","e">>
KeyOnboarded == <<"u","s","e","r","S","e","s","s","i","o","n">>
AllKeys == {KeyToken, KeyUserSession, KeyTheme, KeyOnboarded}

\* The profiles tables considered: the ids that have a row.
ProfileTables == {{"u1"}, {"u1", "u2"}}

\* The contents the local store may have when the provider is constructed.
InitialStores == {AllKeys, {KeyTheme, KeyOnboarded}}

SignInPath == "/(auth)/sign-in"

VARIABLES
    phase,        \* "rendered" (before the effect), "mounted", "unmounted"
    initQuery,    \* supabase.auth.getSession(): "none", "pending", "resolved"
    session,      \* useState<Session | null>
    isLoading,    \* useState(true)
    username,     \* useState('')
    website,      \* useState('')
    avatarUrl,    \* useState('')
    fetches,      \* getProfile invocations suspended at the query: their user ids, oldest first
    signOutPc,    \* signOut's position: "idle", "getAllKeys", "multiRemove", "signOut"
    authKeys,     \* signOut's local authKeys
    storage,      \* AsyncStorage: the set of stored keys
    profiles,     \* the backend's profiles table: the ids that have a row
    alerts,       \* the Alert.alert calls made by the last step
    navCalls,     \* the router.navigate calls made by the last step
    lastOp,       \* the last step: the handler and the input it was given
    delivered     \* whether a session-changed event has carried a session so far

vars == <<phase, initQuery, session, isLoading, username, website, avatarUrl,
          fetches, signOutPc, authKeys, storage, profiles, alerts, navCalls, lastOp,
          delivered>>

\* -------------------------------------------------------------------------
\* Pure parts of the handlers
\* -------------------------------------------------------------------------

Profile(u, w, a) == [username |-> u, website |-> w, avatarUrl |-> a]
EmptyProfile == Profile("", "", "")

StartsWith(s, p) == Len(s) >= Len(p) /\ SubSeq(s, 1, Len(p)) = p
Includes(s, sub) ==
    \E i \in 1..(Len(s) + 1) :
        i + Len(sub) - 1 <= Len(s) /\ SubSeq(s, i, i + Len(sub) - 1) = sub

SupabaseAuthPrefix == <<"s","u","p","a","b","a","s","e",".","a","u","t","h">>
SessionWord == <<"s","e","s","s","i","o","n">>

\* Variant of AuthKeysOf: only the prefix is tested.
AuthKeysOfPrefixOnly(keys) == {k \in keys : StartsWith(k, SupabaseAuthPrefix)}

\* keys.filter(key => key.startsWith('supabase.auth') || key.includes('session'))
AuthKeysOf(keys) ==
    {k \in keys : StartsWith(k, SupabaseAuthPrefix) \/ Includes(k, SessionWord)}

\* const userSession = currentSession || session
EffectiveSession(currentSession, sess) ==
    IF currentSession # NoSession THEN currentSession ELSE sess

\* if (!userSession?.user?.id) return: whether getProfile reaches its query
ReachesQuery(currentSession, sess) ==
    EffectiveSession(currentSession, sess) # NoSession

\* The answers { data, error, status } a profile query for u can resolve with.
DataResponse(u) == [data |-> Some(ProfileRow(u)), error |-> Null, status |-> 200]
NotFoundResponse(e) == [data |-> Null, error |-> Some(e), status |-> NotFoundStatus]
FailureResponse(e) == [data |-> Null, error |-> Some(e), status |-> 500]
Responses(u, table) ==
    (IF u \in table
     THEN {DataResponse(u)}
     ELSE {NotFoundResponse(e) : e \in ThrownValues})
    \cup {FailureResponse(e) : e \in ThrownValues}

\* Variant of QueryThrows: the not-found status is not exempted.
QueryThrowsOnAnyError(resp) == resp.error # Null

\* if (error && status !== 406) throw error
QueryThrows(resp) == resp.error # Null /\ resp.status # NotFoundStatus

\* Variant of ProfileAfterQuery: website and avatar_url are stored crosswise.
ProfileAfterQuerySwapped(resp, cur) ==
    IF QueryThrows(resp) THEN cur
    ELSE IF resp.data # Null
         THEN Profile(Get(resp.data).username, Get(resp.data).avatar_url,
                      Get(resp.data).website)
         ELSE cur

\* The profile fields after getProfile's continuation, from the fields cur.
ProfileAfterQuery(resp, cur) ==
    IF QueryThrows(resp) THEN cur
    ELSE IF resp.data # Null
         THEN Profile(Get(resp.data).username, Get(resp.data).website,
                      Get(resp.data).avatar_url)
         ELSE cur

\* getProfile's catch: if (error instanceof Error) Alert.alert(error.message)
GetProfileAlerts(resp) ==
    IF QueryThrows(resp) /\ Get(resp.error).isError
    THEN <<AlertOf(Get(resp.error).message, NoText)>>
    ELSE <<>>

\* Variant of SignOutAlerts: the catch reports every value as unknown.
SignOutAlertsUnknown(thrown) ==
    <<AlertOf("Sign Out Error", "An unknown error occurred")>>

\* signOut's catch
SignOutAlerts(thrown) ==
    IF thrown.isError
    THEN <<AlertOf("Sign Out Error", thrown.message)>>
    ELSE <<AlertOf("Sign Out Error", "An unknown error occurred")>>

\* Variant of ProfileAfterEvent: only the username is cleared.
ProfileAfterEventPartial(newSession, cur) ==
    IF newSession = NoSession THEN Profile("", cur.website, cur.avatarUrl) ELSE cur

\* The session-changed handler's "Clear data if logged out".
ProfileAfterEvent(newSession, cur) ==
    IF newSession = NoSession THEN EmptyProfile ELSE cur

\* router.navigate({ pathname: '/(auth)/sign-in', params: {} }), with the state
\* the setters had been given when the call was made.
NavigateCall(sess, prof) ==
    [pathname |-> SignInPath, params |-> <<>>, session |-> sess, profile |-> prof]

NoResp == [data |-> Null, error |-> Null, status |-> 0]

\* Variant of GetProfileStart: the early return leaves the loading flag set.
GetProfileStartNoFinally(currentSession, sess, fs) ==
    IF ReachesQuery(currentSession, sess)
    THEN [fetches |-> Append(fs, EffectiveSession(currentSession, sess)),
          isLoading |-> TRUE]
    ELSE [fetches |-> fs, isLoading |-> TRUE]

\* getProfile(currentSession) up to its await: setIsLoading(true), then either
\* the query is issued and the call suspends, or it returns through finally.
GetProfileStart(currentSession, sess, fs) ==
    IF ReachesQuery(currentSession, sess)
    THEN [fetches |-> Append(fs, EffectiveSession(currentSession, sess)),
          isLoading |-> TRUE]
    ELSE [fetches |-> fs, isLoading |-> FALSE]

\* Variant of InitialThen: setIsLoading(false) sits inside the if.
InitialThenLoadingInsideIf(initialSession, sess, fs, loading) ==
    IF initialSession # NoSession
    THEN [session |-> initialSession,
          fetches |-> GetProfileStart(initialSession, sess, fs).fetches,
          isLoading |-> FALSE]
    ELSE [session |-> sess, fetches |-> fs, isLoading |-> loading]

\* Variant of InitialThen: the session is stored but getProfile is not called.
InitialThenNoFetch(initialSession, sess, fs, loading) ==
    [session |-> IF initialSession # NoSession THEN initialSession ELSE sess,
     fetches |-> fs, isLoading |-> FALSE]

\* The then-callback of the initial getSession:
\*   if (initialSession?.user) { setSession(initialSession); getProfile(initialSession) }
\*   setIsLoading(false)
InitialThen(initialSession, sess, fs, loading) ==
    IF initialSession # NoSession
    THEN [session |-> initialSession,
          fetches |-> GetProfileStart(initialSession, sess, fs).fetches,
          isLoading |-> FALSE]
    ELSE [session |-> sess, fetches |-> fs, isLoading |-> FALSE]

\* Variant of AuthStateChanged: a new session supersedes the fetches in flight.
AuthStateChangedCancels(newSession, sess, prof, fs, loading) ==
    [profile |-> ProfileAfterEvent(newSession, prof),
     session |-> newSession,
     fetches |-> IF newSession # NoSession
                 THEN GetProfileStart(newSession, sess, <<>>).fetches
                 ELSE fs,
     isLoading |-> IF newSession # NoSession
                   THEN GetProfileStart(newSession, sess, fs).isLoading
                   ELSE loading]

\* Variant of AuthStateChanged: the session is stored only when it has a user.
AuthStateChangedKeepsSession(newSession, sess, prof, fs, loading) ==
    [profile |-> ProfileAfterEvent(newSession, prof),
     session |-> IF newSession # NoSession THEN newSession ELSE sess,
     fetches |-> IF newSession # NoSession
                 THEN GetProfileStart(newSession, sess, fs).fetches
                 ELSE fs,
     isLoading |-> IF newSession # NoSession
                   THEN GetProfileStart(newSession, sess, fs).isLoading
                   ELSE loading]

\* The session-changed handler:
\*   if (!newSession) clear the fields; setSession(newSession);
\*   if (newSession?.user) getProfile(newSession)
AuthStateChanged(newSession, sess, prof, fs, loading) ==
    [profile |-> ProfileAfterEvent(newSession, prof),
     session |-> newSession,
     fetches |-> IF newSession # NoSession
                 THEN GetProfileStart(newSession, sess, fs).fetches
                 ELSE fs,
     isLoading |-> IF newSession # NoSession
                   THEN GetProfileStart(newSession, sess, fs).isLoading
                   ELSE loading]

RemoveAt(s, i) == SubSeq(s, 1, i - 1) \o SubSeq(s, i + 1, Len(s))

CurrentProfile == Profile(username, website, avatarUrl)

\* The record of a step: the handler, its input, the backend's answer, and the
\* session and profile fields the step started from.
Op(name, arg, resp) ==
    [op |-> name, arg |-> arg, resp |-> resp,
     before |-> [session |-> session, profile |-> CurrentProfile]]

SetProfile(p) ==
    /\ username' = p.username
    /\ website' = p.website
    /\ avatarUrl' = p.avatarUrl

\* -------------------------------------------------------------------------
\* Initial state: the first render, before the effect has run
\* -------------------------------------------------------------------------

Init ==
    /\ phase = "rendered"
    /\ initQuery = "none"
    /\ session = NoSession
    /\ isLoading = TRUE
    /\ username = ""
    /\ website = ""
    /\ avatarUrl = ""
    /\ fetches = <<>>
    /\ signOutPc = "idle"
    /\ authKeys = {}
    /\ storage \in InitialStores
    /\ profiles \in ProfileTables
    /\ alerts = <<>>
    /\ navCalls = <<>>
    /\ lastOp = [op |-> "render", arg |-> NoSession, resp |-> NoResp,
                 before |-> [session |-> NoSession, profile |-> EmptyProfile]]
    /\ delivered = FALSE

\* -------------------------------------------------------------------------
\* Actions
\* -------------------------------------------------------------------------

\* useEffect(() => {...}, []): clear the fields, issue getSession, subscribe.
Mount ==
    /\ phase = "rendered"
    /\ phase' = "mounted"
    /\ SetProfile(EmptyProfile)
    /\ initQuery' = "pending"
    /\ alerts' = <<>>
    /\ navCalls' = <<>>
    /\ lastOp' = Op("mount", NoSession, NoResp)
    /\ UNCHANGED <<session, isLoading, fetches, signOutPc, authKeys, storage, profiles, delivered>>

\* supabase.auth.getSession().then(({ data: { session: initialSession } }) => ...)
\* The answer is { data: { session }, error }: a failed query carries no session.
GetSessionResolve(initialSession, error) ==
    /\ initQuery = "pending"
    /\ error # Null => initialSession = NoSession
    /\ initialSession # NoSession => Len(fetches) < MaxFetches
    /\ initQuery' = "resolved"
    /\ session' = InitialThen(initialSession, session, fetches, isLoading).session
    /\ fetches' = InitialThen(initialSession, session, fetches, isLoading).fetches
    /\ isLoading' = InitialThen(initialSession, session, fetches, isLoading).isLoading
    /\ alerts' = <<>>
    /\ navCalls' = <<>>
    /\ lastOp' = Op("getSessionResolve", initialSession,
                    [data |-> Null, error |-> error, status |-> 0])
    /\ UNCHANGED <<phase, username, website, avatarUrl, signOutPc, authKeys,
                   storage, profiles, delivered>>

\* Variant of Subscribed: the effect's cleanup does not unsubscribe.
SubscribedWithoutCleanup(ph) == ph # "rendered"

\* Whether the session-changed handler is registered: from the effect's
\* onAuthStateChange(...) until its cleanup calls subscription.unsubscribe().
Subscribed(ph) == ph = "mounted"

\* supabase.auth.onAuthStateChange((_event, newSession) => ...)
OnAuthStateChange(newSession) ==
    /\ Subscribed(phase)
    /\ newSession # NoSession => Len(fetches) < MaxFetches
    /\ LET r == AuthStateChanged(newSession, session, CurrentProfile, fetches, isLoading)
       IN /\ SetProfile(r.profile)
          /\ session' = r.session
          /\ fetches' = r.fetches
          /\ isLoading' = r.isLoading
    /\ alerts' = <<>>
    /\ navCalls' = <<>>
    /\ lastOp' = Op("onAuthStateChange", newSession, NoResp)
    /\ delivered' = (delivered \/ newSession # NoSession)
    /\ UNCHANGED <<phase, initQuery, signOutPc, authKeys, storage, profiles>>

\* refreshProfile: () => getProfile(), up to the query
RefreshProfile ==
    /\ phase = "mounted"
    /\ ReachesQuery(NoSession, session) => Len(fetches) < MaxFetches
    /\ fetches' = GetProfileStart(NoSession, session, fetches).fetches
    /\ isLoading' = GetProfileStart(NoSession, session, fetches).isLoading
    /\ alerts' = <<>>
    /\ navCalls' = <<>>
    /\ lastOp' = Op("refreshProfile", session, NoResp)
    /\ UNCHANGED <<phase, initQuery, session, username, website, avatarUrl,
                   signOutPc, authKeys, storage, profiles, delivered>>

\* getProfile resumed with the answer of the i-th suspended query
GetProfileResolve(i, resp) ==
    /\ i \in 1..Len(fetches)
    /\ fetches' = RemoveAt(fetches, i)
    /\ SetProfile(ProfileAfterQuery(resp, CurrentProfile))
    /\ alerts' = GetProfileAlerts(resp)
    /\ isLoading' = FALSE
    /\ navCalls' = <<>>
    /\ lastOp' = Op("getProfileResolve", fetches[i], resp)
    /\ UNCHANGED <<phase, initQuery, session, signOutPc, authKeys, storage, profiles, delivered>>

\* signOut up to its first await: setIsLoading(true); AsyncStorage.getAllKeys()
\* (one signOut runs at a time)
SignOut ==
    /\ phase = "mounted"
    /\ signOutPc = "idle"
    /\ signOutPc' = "getAllKeys"
    /\ isLoading' = TRUE
    /\ alerts' = <<>>
    /\ navCalls' = <<>>
    /\ lastOp' = Op("signOut", NoSession, NoResp)
    /\ UNCHANGED <<phase, initQuery, session, username, website, avatarUrl,
                   fetches, authKeys, storage, profiles, delivered>>

\* Variant of SignOutFails: the catch clears the session as well.
SignOutFailsClearsSession(name, thrown) ==
    /\ signOutPc' = "idle"
    /\ authKeys' = {}
    /\ alerts' = SignOutAlerts(thrown)
    /\ navCalls' = <<>>
    /\ isLoading' = FALSE
    /\ session' = NoSession
    /\ lastOp' = Op(name, NoSession, [data |-> Null, error |-> Some(thrown), status |-> 0])
    /\ UNCHANGED <<phase, initQuery, username, website, avatarUrl,
                   fetches, storage, profiles, delivered>>

\* catch and finally of signOut, entered with the value thrown.  The error of
\* supabase.auth.signOut() is an AuthError, a subclass of Error; what the local
\* store rejects with is any value.
SignOutFails(name, thrown) ==
    /\ signOutPc' = "idle"
    /\ authKeys' = {}
    /\ alerts' = SignOutAlerts(thrown)
    /\ navCalls' = <<>>
    /\ isLoading' = FALSE
    /\ lastOp' = Op(name, NoSession, [data |-> Null, error |-> Some(thrown), status |-> 0])
    /\ UNCHANGED <<phase, initQuery, session, username, website, avatarUrl,
                   fetches, storage, profiles, delivered>>

\* getAllKeys resolved: filter the keys, then multiRemove or the backend sign-out
GetAllKeysResolve ==
    /\ signOutPc = "getAllKeys"
    /\ authKeys' = AuthKeysOf(storage)
    /\ signOutPc' = IF Cardinality(AuthKeysOf(storage)) > 0 THEN "multiRemove" ELSE "signOut"
    /\ alerts' = <<>>
    /\ navCalls' = <<>>
    /\ lastOp' = Op("getAllKeysResolve", NoSession, NoResp)
    /\ UNCHANGED <<phase, initQuery, session, isLoading, username, website,
                   avatarUrl, fetches, storage, profiles, delivered>>

\* getAllKeys rejected
GetAllKeysReject(thrown) ==
    /\ signOutPc = "getAllKeys"
    /\ SignOutFails("getAllKeysReject", thrown)

\* multiRemove(authKeys) resolved: the keys are gone; call the backend sign-out
MultiRemoveResolve ==
    /\ signOutPc = "multiRemove"
    /\ storage' = storage \ authKeys
    /\ signOutPc' = "signOut"
    /\ alerts' = <<>>
    /\ navCalls' = <<>>
    /\ lastOp' = Op("multiRemoveResolve", NoSession, NoResp)
    /\ UNCHANGED <<phase, initQuery, session, isLoading, username, website,
                   avatarUrl, fetches, authKeys, profiles, delivered>>

\* multiRemove rejected
MultiRemoveReject(thrown) ==
    /\ signOutPc = "multiRemove"
    /\ SignOutFails("multiRemoveReject", thrown)

\* Variant of SignOutClear: router.navigate is called before the state is cleared.
SignOutClearNavigatesFirst(sess, prof) ==
    [session |-> NoSession, profile |-> EmptyProfile,
     navCalls |-> <<NavigateCall(sess, prof)>>]

\* "Clear state" and the navigation reset of signOut, in the order of the code:
\* the state given to the setters, then the navigate call made with it.
SignOutClear(sess, prof) ==
    [session |-> NoSession, profile |-> EmptyProfile,
     navCalls |-> <<NavigateCall(NoSession, EmptyProfile)>>]

\* supabase.auth.signOut() resolved with { error }
SignOutResolve(error) ==
    /\ signOutPc = "signOut"
    /\ IF error # Null
       THEN SignOutFails("signOutResolve", Get(error))
       ELSE /\ session' = SignOutClear(session, CurrentProfile).session
            /\ SetProfile(SignOutClear(session, CurrentProfile).profile)
            /\ navCalls' = SignOutClear(session, CurrentProfile).navCalls
            /\ alerts' = <<>>
            /\ isLoading' = FALSE
            /\ signOutPc' = "idle"
            /\ authKeys' = {}
            /\ lastOp' = Op("signOutResolve", NoSession, NoResp)
            /\ UNCHANGED <<phase, initQuery, fetches, storage, profiles, delivered>>

\* The effect's cleanup: subscription.unsubscribe()
Unmount ==
    /\ phase = "mounted"
    /\ phase' = "unmounted"
    /\ alerts' = <<>>
    /\ navCalls' = <<>>
    /\ lastOp' = Op("unmount", NoSession, NoResp)
    /\ UNCHANGED <<initQuery, session, isLoading, username, website, avatarUrl,
                   fetches, signOutPc, authKeys, storage, profiles, delivered>>

Next ==
    \/ Mount
    \/ \E s \in Sessions : GetSessionResolve(s, Null)
    \/ \E e \in ErrorObjects : GetSessionResolve(NoSession, Some(e))
    \/ \E s \in Sessions : OnAuthStateChange(s)
    \/ RefreshProfile
    \/ \E i \in 1..Len(fetches) :
          \E resp \in Responses(fetches[i], profiles) : GetProfileResolve(i, resp)
    \/ SignOut
    \/ GetAllKeysResolve
    \/ \E t \in ThrownValues : GetAllKeysReject(t)
    \/ MultiRemoveResolve
    \/ \E t \in ThrownValues : MultiRemoveReject(t)
    \/ SignOutResolve(Null)
    \/ \E e \in ErrorObjects : SignOutResolve(Some(e))
    \/ Unmount

Spec == Init /\ [][Next]_vars

\* Every issued call eventually resolves: the oldest suspended profile query,
\* the initial session query, and the calls signOut awaits.
ResolveOldest ==
    /\ fetches # <<>>
    /\ \E resp \in Responses(fetches[1], profiles) : GetProfileResolve(1, resp)

ResolveInitial ==
    \/ \E s \in Sessions : GetSessionResolve(s, Null)
    \/ \E e \in ErrorObjects : GetSessionResolve(NoSession, Some(e))

ResolveSignOut ==
    \/ GetAllKeysResolve
    \/ \E t \in ThrownValues : GetAllKeysReject(t)
    \/ MultiRemoveResolve
    \/ \E t \in ThrownValues : MultiRemoveReject(t)
    \/ SignOutResolve(Null)
    \/ \E e \in ErrorObjects : SignOutResolve(Some(e))

FairSpec ==
    /\ Spec
    /\ WF_vars(ResolveOldest)
    /\ WF_vars(ResolveInitial)
    /\ WF_vars(ResolveSignOut)

\* -------------------------------------------------------------------------
\* Properties
\* -------------------------------------------------------------------------

Did(name) == lastOp.op = name
FieldsEmpty == username = "" /\ website = "" /\ avatarUrl = ""
RowProfile(u) ==
    Profile(ProfileRow(u).username, ProfileRow(u).website, ProfileRow(u).avatar_url)

\* C1: in every reachable state the profile fields are non-empty only if the
\* session is non-null (and so carries a user id).
ProfileOnlyWithSession == ~FieldsEmpty => session # NoSession

\* C2: after signOut's backend call succeeded, session is null, the three
\* profile fields are "", and exactly one navigation call was made, to
\* '/(auth)/sign-in' with empty params, issued with the state already cleared.
SignOutSuccessClearsAndNavigates ==
    (Did("signOutResolve") /\ lastOp.resp.error = Null) =>
        /\ session = NoSession
        /\ FieldsEmpty
        /\ Len(navCalls) = 1
        /\ navCalls[1].pathname = "/(auth)/sign-in"
        /\ navCalls[1].params = <<>>
        /\ navCalls[1].session = NoSession
        /\ navCalls[1].profile = EmptyProfile

SignOutSuccessWitness ==
    /\ Did("signOutResolve")
    /\ lastOp.resp.error = Null
    /\ lastOp.before.session # NoSession
    /\ lastOp.before.profile # EmptyProfile
    /\ Len(navCalls) = 1

\* C3: when the backend sign-out call returns an error, one alert carrying the
\* error's message is raised, session and the profile fields are the ones the
\* step started from, and no navigation call is made; the steps of signOut
\* before it changed none of them and navigated nowhere either.
SignOutBackendErrorKeepsState ==
    /\ (Did("signOutResolve") /\ lastOp.resp.error # Null) =>
          /\ Len(alerts) = 1
          /\ alerts[1].message = Get(lastOp.resp.error).message
          /\ session = lastOp.before.session
          /\ CurrentProfile = lastOp.before.profile
          /\ navCalls = <<>>
    /\ lastOp.op \in {"signOut", "getAllKeysResolve", "multiRemoveResolve"} =>
          /\ session = lastOp.before.session
          /\ CurrentProfile = lastOp.before.profile
          /\ navCalls = <<>>

SignOutBackendErrorWitness ==
    /\ Did("signOutResolve")
    /\ lastOp.resp.error # Null
    /\ session # NoSession
    /\ CurrentProfile # EmptyProfile
    /\ Len(alerts) = 1

\* C4: after the session-changed handler processed an event carrying a null
\* session, username, website and avatarUrl are "" and session is null,
\* whatever they were before.
NullEventClearsProfile ==
    (Did("onAuthStateChange") /\ lastOp.arg = NoSession) =>
        (FieldsEmpty /\ session = NoSession)

NullEventWitness ==
    /\ Did("onAuthStateChange")
    /\ lastOp.arg = NoSession
    /\ lastOp.before.session # NoSession
    /\ lastOp.before.profile.username # ""
    /\ lastOp.before.profile.website # ""
    /\ lastOp.before.profile.avatarUrl # ""
    /\ FieldsEmpty

\* C5: a session-changed event carrying a session of user U issues exactly one
\* profile query, for U; and when a profile query resolves with a row
\* {username: a, website: b, avatar_url: c} the fields become (a, b, c).
EventQueriesAndRowIsStored ==
    [][/\ (lastOp'.op = "onAuthStateChange" /\ lastOp'.arg \in Users) =>
              fetches' = Append(fetches, lastOp'.arg)
       /\ (lastOp'.op = "getProfileResolve" /\ lastOp'.resp.data # Null) =>
              /\ username' = Get(lastOp'.resp.data).username
              /\ website' = Get(lastOp'.resp.data).website
              /\ avatarUrl' = Get(lastOp'.resp.data).avatar_url]_vars

RowStoredWitness ==
    /\ Did("getProfileResolve")
    /\ lastOp.resp.data # Null
    /\ lastOp.arg = session
    /\ lastOp.before.profile # CurrentProfile
    /\ CurrentProfile = RowProfile(lastOp.arg)

\* C6: when a profile query resolves with the not-found status 406, the
\* profile fields are the ones the step started from and no alert is raised.
NotFoundLeavesFields ==
    (Did("getProfileResolve") /\ lastOp.resp.status = 406) =>
        (CurrentProfile = lastOp.before.profile /\ alerts = <<>>)

NotFoundWitness ==
    /\ Did("getProfileResolve")
    /\ lastOp.resp.status = 406
    /\ lastOp.resp.error # Null
    /\ Get(lastOp.resp.error).isError
    /\ CurrentProfile # EmptyProfile

\* C7: when a profile query resolves with an error whose status is not 406,
\* an alert is raised and the profile fields are left unchanged.
QueryErrorAlerts ==
    (Did("getProfileResolve") /\ lastOp.resp.error # Null /\ lastOp.resp.status # 406) =>
        (Len(alerts) = 1 /\ CurrentProfile = lastOp.before.profile)

\* A step in which a backend or storage call failed (not-found is not a failure).
FailedCall ==
    /\ lastOp.op \in {"getSessionResolve", "getProfileResolve", "getAllKeysReject",
                      "multiRemoveReject", "signOutResolve"}
    /\ lastOp.resp.error # Null
    /\ lastOp.resp.status # 406

\* C8: every failing call of initialize, fetch-profile or sign-out (initial
\* session query, profile query, key enumeration, key removal, backend
\* sign-out) raises exactly one alert carrying the error's message and leaves
\* isLoading false.
FailureAlertsOnce ==
    FailedCall =>
        /\ Len(alerts) = 1
        /\ \/ alerts[1].title = Get(lastOp.resp.error).message
           \/ alerts[1].message = Get(lastOp.resp.error).message
        /\ isLoading = FALSE

\* C9: when the initial session query resolves with no session and no
\* session-changed event has delivered one, then session is null, the profile
\* fields are "", isLoading is false and no profile query is in flight.
InitialNoSession ==
    (Did("getSessionResolve") /\ lastOp.arg = NoSession /\ ~delivered) =>
        /\ session = NoSession
        /\ FieldsEmpty
        /\ isLoading = FALSE
        /\ fetches = <<>>

InitialNoSessionWitness ==
    /\ Did("getSessionResolve")
    /\ lastOp.arg = NoSession
    /\ lastOp.resp.error = Null
    /\ ~delivered
    /\ session = NoSession

\* The initial session query has just resolved, in the mounted provider, with
\* a session of u, whose profile row exists.
InitialSessionResolved(u) ==
    Did("getSessionResolve") /\ lastOp.arg = u /\ u \in profiles /\ phase = "mounted"

\* A profile query for u has just resolved with an error other than not-found.
QueryFailedFor(u) ==
    Did("getProfileResolve") /\ lastOp.arg = u /\ QueryThrows(lastOp.resp)

LoadingWhileFetching == fetches # <<>> => isLoading = TRUE

\* C12: every exit of getProfile (no user id, not-found, query error, data)
\* and of signOut (storage error, backend error, success) leaves isLoading
\* false as the last thing the invocation did.
ExitsResetLoading ==
    (\/ Did("getProfileResolve")
     \/ (Did("refreshProfile") /\ lastOp.arg = NoSession)
     \/ Did("getAllKeysReject")
     \/ Did("multiRemoveReject")
     \/ Did("signOutResolve")) => isLoading = FALSE

ExitsResetLoadingWitness ==
    /\ Did("refreshProfile")
    /\ lastOp.arg = NoSession
    /\ initQuery = "pending"
    /\ isLoading = FALSE

\* C13: overlapping profile fetches are not cancelled: an event adds its query
\* to those in flight, a resolution removes only the resolved one, and every
\* resolution carrying a row writes that row, so the fields after both have
\* resolved are those of the fetch that resolved last.
LastResolvedWins ==
    [][/\ (lastOp'.op = "onAuthStateChange" /\ lastOp'.arg \in Users) =>
              SubSeq(fetches', 1, Len(fetches)) = fetches
       /\ lastOp'.op = "getProfileResolve" =>
              \E i \in 1..Len(fetches) :
                  fetches[i] = lastOp'.arg /\ fetches' = RemoveAt(fetches, i)
       /\ (lastOp'.op = "getProfileResolve" /\ lastOp'.resp.data # Null) =>
              Profile(username', website', avatarUrl') = RowProfile(lastOp'.arg)]_vars

LastResolvedWinsWitness ==
    /\ Did("getProfileResolve")
    /\ lastOp.resp.data # Null
    /\ fetches = <<>>
    /\ session = "u2"
    /\ lastOp.arg = "u1"
    /\ lastOp.before.profile = RowProfile("u2")
    /\ CurrentProfile = RowProfile("u1")

\* C14: after the session-changed handler processed an event carrying
\* newSession, null or not, the session state equals newSession.
EventStoresSession == Did("onAuthStateChange") => session = lastOp.arg

EventStoresSessionWitness ==
    /\ Did("onAuthStateChange")
    /\ lastOp.arg = NoSession
    /\ lastOp.before.session # NoSession
    /\ session = NoSession

\* C15: signOut removes from the local store exactly the keys that start with
\* 'supabase.auth' or contain 'session' (here supabase.auth.token and
\* user-session), leaves the others (theme, userSession), makes no removal
\* call when there is no such key, and changes the store in no other step.
RemovesExactlyAuthKeys ==
    [][/\ lastOp'.op = "multiRemoveResolve" =>
              storage' = storage \ {KeyToken, KeyUserSession}
       /\ lastOp'.op # "multiRemoveResolve" => storage' = storage
       /\ lastOp'.op = "getAllKeysResolve" =>
              (signOutPc' = "multiRemove" <=>
                   storage \cap {KeyToken, KeyUserSession} # {})]_vars

RemovesExactlyAuthKeysWitness ==
    /\ Did("multiRemoveResolve")
    /\ storage = {KeyTheme, KeyOnboarded}

\* C16: the session-changed handler runs only between mount and unmount: no
\* event is handled, and so no state is changed by the handler, before the
\* effect subscribed or after its cleanup unsubscribed.
HandlerOnlyWhileMounted ==
    [][lastOp'.op = "onAuthStateChange" => (phase = "mounted" /\ phase' = "mounted")]_vars

HandlerOnlyWhileMountedWitness ==
    /\ phase = "unmounted"
    /\ delivered
    /\ Did("getProfileResolve")

\* C17: whenever session carries user id U and no profile fetch is in flight,
\* each profile field is "" or that of U's profile row.
FieldIsEmptyOr(value, own) == value = "" \/ value = own

ProfileBelongsToSession ==
    (session \in Users /\ fetches = <<>>) =>
        /\ FieldIsEmptyOr(username, ProfileRow(session).username)
        /\ FieldIsEmptyOr(website, ProfileRow(session).website)
        /\ FieldIsEmptyOr(avatarUrl, ProfileRow(session).avatar_url)

\* C18: an initial-query result that resolves after a session-changed event
\* has delivered a session, with no sign-out executing, does not overwrite
\* the session state.
InitialResultDoesNotOverwrite ==
    (Did("getSessionResolve") /\ delivered /\ signOutPc = "idle") =>
        session = lastOp.before.session

\* C19: signOut's steps run in the order enumerate keys, remove auth keys,
\* backend sign-out, clear state and navigate, each only after the earlier
\* ones succeeded: a storage failure ends signOut without the backend call
\* and with session unchanged, and a backend failure leaves session unchanged
\* with the auth keys already removed.
SignOutStepsInOrder ==
    [][/\ (signOutPc' = "getAllKeys" /\ signOutPc # "getAllKeys") =>
              lastOp'.op = "signOut"
       /\ (signOutPc' = "multiRemove" /\ signOutPc # "multiRemove") =>
              lastOp'.op = "getAllKeysResolve"
       /\ (signOutPc' = "signOut" /\ signOutPc # "signOut") =>
              \/ lastOp'.op = "multiRemoveResolve"
              \/ (lastOp'.op = "getAllKeysResolve"
                    /\ storage \cap {KeyToken, KeyUserSession} = {})
       /\ navCalls' # <<>> =>
              (signOutPc = "signOut" /\ lastOp'.op = "signOutResolve"
                 /\ lastOp'.resp.error = Null)
       /\ lastOp'.op \in {"getAllKeysReject", "multiRemoveReject"} =>
              (signOutPc' = "idle" /\ session' = session /\ navCalls' = <<>>)
       /\ (lastOp'.op = "signOutResolve" /\ lastOp'.resp.error # Null) =>
              /\ session' = session
              /\ storage' \cap {KeyToken, KeyUserSession} = {}]_vars

SignOutStepsInOrderWitness ==
    /\ Did("multiRemoveReject")
    /\ session # NoSession
    /\ KeyToken \in storage
    /\ signOutPc = "idle"

\* C20: once the initial session query has resolved, whenever no getProfile
\* is suspended at its query and no signOut is suspended at a storage or
\* backend call, isLoading is false.
IdleMeansNotLoading ==
    (initQuery = "resolved" /\ fetches = <<>> /\ signOutPc = "idle") => isLoading = FALSE

IdleMeansNotLoadingWitness ==
    /\ initQuery = "resolved"
    /\ fetches = <<>>
    /\ signOutPc = "idle"
    /\ Did("getProfileResolve")
    /\ isLoading = FALSE

=============================================================================
